---------------------------- MODULE Spec2Model ----------------------------
(***************************************************************************)
(* The beam analysis of src/Python/BeamAnalyzer.jsx (the useMemo callback  *)
(* analyzeBeam, lines 254-325) as a state machine.                         *)
(*                                                                         *)
(* The callback is a function of the three dependency values beamLength,   *)
(* supports and loads.  Init draws them from bounded sets; the actions are *)
(* the three parts of the callback in program order: the reaction solver   *)
(* (260-281), one iteration of the sampling loop (284-318) and the final   *)
(* publication of the field (321-324).                                     *)
(*                                                                         *)
(* JavaScript values are modelled by records [k, n, d, an, ad]:            *)
(*   k = "fin"  the number n/d in lowest terms, d > 0 (exact arithmetic in *)
(*              place of IEEE doubles: no rounding error is modelled)      *)
(*   k = "inf"  +Infinity (n = 1) or -Infinity (n = -1)                    *)
(*   k = "nan"  NaN                                                        *)
(*   k = "str"  a string produced by Number.prototype.toFixed: the decimal *)
(*              n/d with d = 10^digits, or "Infinity"/"-Infinity"/"NaN"    *)
(*              (d = 0, n as for inf/nan)                                  *)
(*   k = "cat"  a string produced by string + number concatenation: the    *)
(*              text of the toFixed string (n, d) followed by the text of  *)
(*              the number (an, ad)                                        *)
(*   k = "undef" undefined                                                 *)
(***************************************************************************)
EXTENDS Integers, Sequences, FiniteSets, TLC

(***************************************************************************)
(* Bounds of the model.                                                    *)
(***************************************************************************)
MaxSupports == 3
MaxLoads == 2

BeamLengths == {10, 12}
SupportChoices ==
    {[position |-> 0, type |-> "pin"],
     [position |-> 2, type |-> "pin"],
     [position |-> 8, type |-> "roller"],
     [position |-> 8, type |-> "fixed"]}
LoadChoices ==
    {[type |-> "concentrated", position |-> p, magnitude |-> m,
      startPos |-> 0, endPos |-> 0, startIntensity |-> 0, endIntensity |-> 0] :
        <<p, m>> \in {<<0, -20>>, <<5, 50>>, <<11, 50>>}}
    \cup
    {[type |-> "distributed", position |-> 0, magnitude |-> 0,
      startPos |-> 0, endPos |-> 4, startIntensity |-> 0, endIntensity |-> 20],
     [type |-> "distributed", position |-> 0, magnitude |-> 0,
      startPos |-> 6, endPos |-> 10, startIntensity |-> 15, endIntensity |-> 5]}

SeqsUpTo(S, n) == UNION {[1..m -> S] : m \in 0..n}

(***************************************************************************)
(* JavaScript values and Number arithmetic.                                *)
(***************************************************************************)
AbsInt(a) == IF a < 0 THEN -a ELSE a

RECURSIVE GCD(_, _)
GCD(a, b) == IF b = 0 THEN a ELSE GCD(b, a % b)

Val(k, n, d) == [k |-> k, n |-> n, d |-> d, an |-> 0, ad |-> 0]

Norm(n, d) ==
    LET g == GCD(AbsInt(n), AbsInt(d))
        s == IF d < 0 THEN -1 ELSE 1
    IN  Val("fin", (s * n) \div g, (s * d) \div g)

Num(a) == Val("fin", a, 1)
NaN == Val("nan", 0, 0)
Undefined == Val("undef", 0, 0)
Infinity(s) == Val("inf", s, 0)
Sign(a) == IF a < 0 THEN -1 ELSE 1

IsNumber(v) == v.k \in {"fin", "inf", "nan"}
IsString(v) == v.k \in {"str", "cat"}
IsFinite(v) == v.k = "fin"

Neg(a) == [a EXCEPT !.n = -a.n]

Add(a, b) ==
    IF a.k = "nan" \/ b.k = "nan" THEN NaN
    ELSE IF a.k = "inf" /\ b.k = "inf" THEN (IF a.n = b.n THEN a ELSE NaN)
    ELSE IF a.k = "inf" THEN a
    ELSE IF b.k = "inf" THEN b
    ELSE Norm(a.n * b.d + b.n * a.d, a.d * b.d)

Sub(a, b) == Add(a, Neg(b))

Mul(a, b) ==
    IF a.k = "nan" \/ b.k = "nan" THEN NaN
    ELSE IF a.k = "inf" \/ b.k = "inf"
         THEN (IF a.n = 0 \/ b.n = 0 THEN NaN ELSE Infinity(Sign(a.n) * Sign(b.n)))
    ELSE Norm(a.n * b.n, a.d * b.d)

Div(a, b) ==
    IF a.k = "nan" \/ b.k = "nan" THEN NaN
    ELSE IF a.k = "inf" THEN (IF b.k = "inf" THEN NaN ELSE Infinity(a.n * Sign(b.n)))
    ELSE IF b.k = "inf" THEN Num(0)
    ELSE IF b.n = 0 THEN (IF a.n = 0 THEN NaN ELSE Infinity(Sign(a.n)))
    ELSE Norm(a.n * b.d, a.d * b.n)

GE(a, b) ==
    IF a.k = "nan" \/ b.k = "nan" THEN FALSE
    ELSE IF a.k = "inf" THEN (a.n = 1 \/ (b.k = "inf" /\ b.n = -1))
    ELSE IF b.k = "inf" THEN b.n = -1
    ELSE a.n * b.d >= b.n * a.d

AbsNum(a) == [a EXCEPT !.n = AbsInt(a.n)]

RECURSIVE Pow10(_)
Pow10(f) == IF f = 0 THEN 1 ELSE 10 * Pow10(f - 1)

RECURSIVE NumDigits(_)
NumDigits(m) == IF m < 10 THEN 1 ELSE 1 + NumDigits(m \div 10)

\* Number.prototype.toFixed(f): the decimal with f fraction digits nearest to
\* v (ties away from zero), or the text of a non-finite number.  The sign of
\* a negative value that rounds to zero ("-0.00") is not kept.
ToFixed(v, f) ==
    IF v.k = "fin"
    THEN LET q == (2 * AbsInt(v.n) * Pow10(f) + v.d) \div (2 * v.d)
         IN  Val("str", Sign(v.n) * q, Pow10(f))
    ELSE Val("str", v.n, 0)

\* string + number: the text of the string followed by the text of the number
Concat(s, v) == [k |-> "cat", n |-> s.n, d |-> s.d, an |-> v.n, ad |-> v.d]

\* The binary + of lines 308-309: numeric addition of two numbers, string
\* concatenation as soon as one operand is a string.
Plus(a, b) == IF IsNumber(a) /\ IsNumber(b) THEN Add(a, b) ELSE Concat(a, b)

\* ToNumber, as applied by * and / to a non-number operand, and parseFloat
\* on the strings this program builds.  A toFixed string reads back as its
\* decimal.  A concatenation "s.dd" ++ text(v) is a numeric literal only
\* when text(v) is a run of digits (v a non-negative integer).
ToNumber(v) ==
    CASE IsNumber(v) -> v
      [] v.k = "str" ->
            (IF v.d > 0 THEN Norm(v.n, v.d)
             ELSE IF v.n = 0 THEN NaN ELSE Infinity(v.n))
      [] v.k = "cat" ->
            (IF v.d > 0 /\ v.ad = 1 /\ v.an >= 0
             THEN LET scale == v.d * Pow10(NumDigits(v.an))
                  IN  Norm(Sign(v.n) * (AbsInt(v.n) * Pow10(NumDigits(v.an)) + v.an), scale)
             ELSE NaN)

\* JavaScript truthiness, as used by || and &&: 0, NaN and undefined are
\* falsy, every non-empty string is truthy.
Truthy(v) ==
    CASE v.k = "fin" -> v.n # 0
      [] v.k \in {"nan", "undef"} -> FALSE
      [] OTHER -> TRUE

Or(a, b) == IF Truthy(a) THEN a ELSE b

(***************************************************************************)
(* The analysis, src/Python/BeamAnalyzer.jsx lines 254-325.                *)
(***************************************************************************)
VARIABLES
    beamLength,     \* useState(10), line 15
    supports,       \* useState([...]), lines 16-19: sequence of [id, position, type]
    loads,          \* useState([...]), lines 20-22
    reactions,      \* useState({}), line 33: object keyed by support position
    analysisData,   \* useState([]), line 34
    maxDeflection,  \* useState(0), line 35
    pc,             \* position in the callback
    error,          \* the exception the callback raised, "none" if none
    R1, R2,         \* const R1, R2 (lines 275-276)
    data,           \* const data = [] (line 257)
    i,              \* loop index (line 284)
    x, shear, moment \* locals of the last executed iteration (285-287)

\* the globals of src/Web/beam_analysis_engine.js (the web designer)
VARIABLES
    webBeamLength,   \* let beamLength = 10, line 4
    webSupports,     \* let supports = [], line 3: sequence of [position, type, mesh]
    webLoads,        \* let loads = [], line 3
    analysisResults, \* let analysisResults = null, line 5: <<>> is null, <<r>> holds r
    scene,           \* the meshes added to the THREE.Scene (line 2)
    resultsDisplay,  \* style.display of the element 'results' (lines 444, 500)
    alertMsg,        \* the alert() raised by the last handler, "none" if none
    inflight,        \* the fetch requests awaiting their response (line 419)
    nextReq,         \* number of the next request
    created,         \* number of meshes created so far (new THREE.Group())
    settled,         \* history: the request settled last and its outcome,
                     \* <<0, "none">> before any
    storedFrom,      \* history: the request whose results analysisResults
                     \* holds, 0 when it holds none
    clearedAt        \* history: the value of nextReq at the last clearAll

reactVars == <<beamLength, supports, loads, reactions, analysisData, maxDeflection,
               pc, error, R1, R2, data, i, x, shear, moment>>

webVars == <<webBeamLength, webSupports, webLoads, analysisResults, scene,
             resultsDisplay, alertMsg, inflight, nextReq, created, settled,
             storedFrom, clearedAt>>

vars == <<reactVars, webVars>>

\* the web designer after DOMContentLoaded (lines 3-5, 632-635): a beam mesh,
\* no supports, no loads, no result
beamMesh == 0
WebLoaded ==
    /\ webBeamLength = Num(10)
    /\ webSupports = <<>>
    /\ webLoads = <<>>
    /\ analysisResults = <<>>
    /\ scene = {beamMesh}
    /\ resultsDisplay = "none"
    /\ alertMsg = "none"
    /\ inflight = {}
    /\ nextReq = 1
    /\ created = 0
    /\ settled = <<0, "none">>
    /\ storedFrom = 0
    /\ clearedAt = 1

numPoints == 100

dx(len) == Div(Num(len), Num(numPoints - 1))

NoReactions == [p \in {} |-> Undefined]

WithSupportIds(s) ==
    [j \in 1..Len(s) |-> [id |-> j, position |-> s[j].position, type |-> s[j].type]]

WithLoadIds(l) ==
    [j \in 1..Len(l) |->
        [id |-> j, type |-> l[j].type, position |-> l[j].position,
         magnitude |-> l[j].magnitude, startPos |-> l[j].startPos,
         endPos |-> l[j].endPos, startIntensity |-> l[j].startIntensity,
         endIntensity |-> l[j].endIntensity]]

\* lines 265, 268-273: totalLoad after the first j loads
RECURSIVE TotalLoad(_, _)
TotalLoad(ls, j) ==
    IF j = 0 THEN Num(0)
    ELSE LET prev == TotalLoad(ls, j - 1)
         IN  IF ls[j].type = "concentrated"
             THEN Add(prev, Num(ls[j].magnitude))
             ELSE prev

\* the moment taken about the origin instead of about support 1
RECURSIVE MomentAboutOrigin(_, _, _)
MomentAboutOrigin(ls, j, p1) ==
    IF j = 0 THEN Num(0)
    ELSE LET prev == MomentAboutOrigin(ls, j - 1, p1)
         IN  IF ls[j].type = "concentrated"
             THEN Add(prev, Mul(Num(ls[j].magnitude), Num(ls[j].position)))
             ELSE prev

\* lines 266, 268-273: momentAboutSupport1 after the first j loads
RECURSIVE MomentAboutSupport1(_, _, _)
MomentAboutSupport1(ls, j, p1) ==
    IF j = 0 THEN Num(0)
    ELSE LET prev == MomentAboutSupport1(ls, j - 1, p1)
         IN  IF ls[j].type = "concentrated"
             THEN Add(prev, Mul(Num(ls[j].magnitude),
                                Sub(Num(ls[j].position), Num(p1))))
             ELSE prev

\* the span shortened to nothing at a fixed support
SpanLClamped(s1, s2) ==
    IF s2.type = "fixed" THEN Num(0) ELSE Sub(Num(s2.position), Num(s1.position))

\* line 263
SpanL(s1, s2) == Sub(Num(s2.position), Num(s1.position))

\* the quotient with its operands exchanged
ReactionR2Inverted(momentAbout1, L) == Div(L, momentAbout1)

\* line 275
ReactionR2(momentAbout1, L) == Div(momentAbout1, L)

\* R1 with the sign of R2 flipped
ReactionR1PlusR2(totalLoad, r2) == Add(totalLoad, r2)

\* line 276
ReactionR1(totalLoad, r2) == Sub(totalLoad, r2)

\* lines 278-281: an object literal with two computed keys; when the keys
\* are equal the second property replaces the first
ReactionsObject(p1, r1, p2, r2) ==
    [p \in {p1, p2} |-> IF p = p2 THEN r2 ELSE r1]

\* lines 295-299: shear after subtracting the first j loads
RECURSIVE SubtractLoads(_, _, _, _)
SubtractLoads(ls, j, xx, sh) ==
    IF j = 0 THEN sh
    ELSE LET prev == SubtractLoads(ls, j - 1, xx, sh)
         IN  IF ls[j].type = "concentrated" /\ GE(xx, Num(ls[j].position))
             THEN Sub(prev, Num(ls[j].magnitude))
             ELSE prev

\* the sweep with a reaction switched on strictly right of its support
ShearAtStrictlyRight(xx, s1, s2, ls, r1, r2) ==
    LET afterR1 == IF ~GE(Num(s1.position), xx) THEN Add(Num(0), r1) ELSE Num(0)
        afterLoads == SubtractLoads(ls, Len(ls), xx, afterR1)
    IN  IF ~GE(Num(s2.position), xx) THEN Add(afterLoads, r2) ELSE afterLoads

\* lines 286-304: the shear at sample position xx
ShearAt(xx, s1, s2, ls, r1, r2) ==
    LET afterR1 == IF GE(xx, Num(s1.position)) THEN Add(Num(0), r1) ELSE Num(0)
        afterLoads == SubtractLoads(ls, Len(ls), xx, afterR1)
    IN  IF GE(xx, Num(s2.position)) THEN Add(afterLoads, r2) ELSE afterLoads

\* lines 287, 306-310: the value of `moment` for sample idx (0-based), given
\* the entries pushed so far
MomentAt(idx, sh, dat, step) ==
    IF idx > 0
    THEN LET prevShear == Or(dat[idx].shear, Num(0))
         IN  Plus(Or(dat[idx].moment, Num(0)),
                  Div(Mul(ToNumber(Plus(prevShear, sh)), step), Num(2)))
    ELSE Num(0)

\* Math.sin(Math.PI * r) for r = x / beamLength, by Bhaskara's rational
\* approximation 16 r (1 - r) / (5 - 4 r (1 - r)); exact at r = 0, 1/6, 1/2,
\* 5/6 and 1
SinPiTimes(r) ==
    LET q == Mul(r, Sub(Num(1), r))
    IN  Div(Mul(Num(16), q), Sub(Num(5), Mul(Num(4), q)))

\* line 316
Deflection(xx, mo, len) ==
    Div(Mul(SinPiTimes(Div(xx, Num(len))), AbsNum(ToNumber(mo))), Num(1000))

\* line 322: Math.max(...data.map(d => Math.abs(parseFloat(d.deflection))))
\* over the first j entries; Math.max() of nothing is -Infinity
RECURSIVE MaxAbsDeflection(_, _)
MaxAbsDeflection(dat, j) ==
    IF j = 0 THEN Infinity(-1)
    ELSE LET prev == MaxAbsDeflection(dat, j - 1)
             v == AbsNum(ToNumber(dat[j].deflection))
         IN  IF prev.k = "nan" \/ v.k = "nan" THEN NaN
             ELSE IF GE(prev, v) THEN prev ELSE v

Init ==
    /\ WebLoaded
    /\ beamLength \in BeamLengths
    /\ supports \in {WithSupportIds(s) : s \in SeqsUpTo(SupportChoices, MaxSupports)}
    /\ loads \in {WithLoadIds(l) : l \in SeqsUpTo(LoadChoices, MaxLoads)}
    /\ reactions = NoReactions
    /\ analysisData = <<>>
    /\ maxDeflection = Num(0)
    /\ pc = "start"
    /\ error = "none"
    /\ R1 = Undefined
    /\ R2 = Undefined
    /\ data = <<>>
    /\ i = 0
    /\ x = Undefined
    /\ shear = Undefined
    /\ moment = Undefined

\* lines 260-281
SolveReactions ==
    /\ UNCHANGED webVars
    /\ pc = "start"
    /\ IF Len(supports) >= 2
       THEN LET support1 == supports[1]
                support2 == supports[2]
                L == SpanL(support1, support2)
                totalLoad == TotalLoad(loads, Len(loads))
                momentAbout1 == MomentAboutSupport1(loads, Len(loads), support1.position)
                r2 == ReactionR2(momentAbout1, L)
                r1 == ReactionR1(totalLoad, r2)
            IN  /\ R1' = r1
                /\ R2' = r2
                /\ reactions' = ReactionsObject(support1.position, r1, support2.position, r2)
                /\ pc' = "sweep"
       ELSE /\ pc' = "publish"
            /\ UNCHANGED <<R1, R2, reactions>>
    /\ UNCHANGED <<beamLength, supports, loads, analysisData, maxDeflection,
                   error, data, i, x, shear, moment>>

\* lines 284-318: one iteration of the for loop.  toFixed is a method of
\* numbers only: calling it on a string raises a TypeError, which leaves the
\* callback before anything is pushed or published.
SampleStep ==
    /\ UNCHANGED webVars
    /\ pc = "sweep"
    /\ i < numPoints
    /\ LET xx == Mul(Num(i), dx(beamLength))
           sh == ShearAt(xx, supports[1], supports[2], loads, R1, R2)
           mo == MomentAt(i, sh, data, dx(beamLength))
       IN  /\ x' = xx
           /\ shear' = sh
           /\ moment' = mo
           /\ IF IsNumber(mo)
              THEN /\ data' = Append(data,
                                [x |-> ToFixed(xx, 2),
                                 shear |-> ToFixed(sh, 2),
                                 moment |-> ToFixed(mo, 2),
                                 deflection |-> ToFixed(Deflection(xx, mo, beamLength), 4)])
                   /\ i' = i + 1
                   /\ pc' = IF i + 1 < numPoints THEN "sweep" ELSE "publish"
                   /\ error' = error
              ELSE /\ pc' = "threw"
                   /\ error' = "TypeError"
                   /\ UNCHANGED <<data, i>>
    /\ UNCHANGED <<beamLength, supports, loads, reactions, analysisData,
                   maxDeflection, R1, R2>>

\* lines 321-324
Publish ==
    /\ UNCHANGED webVars
    /\ pc = "publish"
    /\ analysisData' = data
    /\ maxDeflection' = MaxAbsDeflection(data, Len(data))
    /\ pc' = "done"
    /\ UNCHANGED <<beamLength, supports, loads, reactions, error, R1, R2,
                   data, i, x, shear, moment>>

Next == SolveReactions \/ SampleStep \/ Publish

Spec == Init /\ [][Next]_vars

(***************************************************************************)
(* The analysis on the inputs of README "Example 1: Simple Overhanging     *)
(* Beam" (src/README.md lines 69-72) and on the input lists built from its *)
(* supports and loads.                                                     *)
(***************************************************************************)
ScenarioSupports ==
    {[position |-> 2, type |-> "pin"], [position |-> 8, type |-> "roller"]}
ScenarioLoads ==
    {[type |-> "concentrated", position |-> pm[1], magnitude |-> pm[2],
      startPos |-> 0, endPos |-> 0, startIntensity |-> 0, endIntensity |-> 0] :
        pm \in {<<1, 50>>, <<6, 30>>, <<9, 40>>}}

InitScenario ==
    /\ WebLoaded
    /\ beamLength = 10
    /\ supports \in {WithSupportIds(s) :
                        s \in SeqsUpTo(ScenarioSupports, Cardinality(ScenarioSupports))}
    /\ loads \in {WithLoadIds(l) :
                     l \in SeqsUpTo(ScenarioLoads, Cardinality(ScenarioLoads))}
    /\ reactions = NoReactions
    /\ analysisData = <<>>
    /\ maxDeflection = Num(0)
    /\ pc = "start"
    /\ error = "none"
    /\ R1 = Undefined
    /\ R2 = Undefined
    /\ data = <<>>
    /\ i = 0
    /\ x = Undefined
    /\ shear = Undefined
    /\ moment = Undefined

SpecScenario == InitScenario /\ [][Next]_vars

\* every kind the support form offers (lines 461-463), at the two default
\* positions
KindSupportChoices ==
    {[position |-> p, type |-> t] : p \in {2, 8}, t \in {"pin", "roller", "fixed"}}

InitKinds ==
    /\ WebLoaded
    /\ beamLength = 10
    /\ supports \in {WithSupportIds(s) : s \in SeqsUpTo(KindSupportChoices, MaxSupports)}
    /\ loads \in {WithLoadIds(l) :
                    l \in SeqsUpTo({c \in LoadChoices : c.type = "concentrated"},
                                   MaxLoads)}
    /\ reactions = NoReactions
    /\ analysisData = <<>>
    /\ maxDeflection = Num(0)
    /\ pc = "start"
    /\ error = "none"
    /\ R1 = Undefined
    /\ R2 = Undefined
    /\ data = <<>>
    /\ i = 0
    /\ x = Undefined
    /\ shear = Undefined
    /\ moment = Undefined

\* the analysis over supports of every kind
SpecKinds == InitKinds /\ [][Next]_vars

\* lines 346-348: removeSupport(id) of the React component, after which the
\* component renders again and the useMemo callback runs on the new supports
\* (lines 254-257: fresh locals); the state set by the earlier run is kept
ReactRemoveSupport ==
    /\ UNCHANGED webVars
    /\ pc \in {"threw", "done"}
    /\ \E id \in {supports[k].id : k \in 1..Len(supports)} :
          supports' = SelectSeq(supports, LAMBDA sp : sp.id # id)
    /\ pc' = "start"
    /\ error' = "none"
    /\ R1' = Undefined
    /\ R2' = Undefined
    /\ data' = <<>>
    /\ i' = 0
    /\ x' = Undefined
    /\ shear' = Undefined
    /\ moment' = Undefined
    /\ UNCHANGED <<beamLength, loads, reactions, analysisData, maxDeflection>>

NextReact == Next \/ ReactRemoveSupport

\* the React analyzer with supports removed between analyses
SpecReact == Init /\ [][NextReact]_vars

\* line 324: the callback returns data alone; no diagnostic accompanies it
Warnings == <<>>

TypeOK ==
    /\ pc \in {"start", "sweep", "publish", "threw", "done"}
    /\ error \in {"none", "TypeError"}
    /\ i \in 0..numPoints

(***************************************************************************)
(* The web designer, src/Web/beam_analysis_engine.js.                      *)
(***************************************************************************)
MaxWebSupports == 2
MaxWebLoads == 1
MaxRequests == 2
MaxMeshes == 3

\* the values a user can submit: parseFloat of the input fields
WebLengths == {Num(10), Num(6)}
SupportInputs ==
    {[position |-> NaN, type |-> "pin"],
     [position |-> Num(-1), type |-> "pin"],
     [position |-> Num(4), type |-> "pin"],
     [position |-> Norm(81, 20), type |-> "roller"],
     [position |-> Num(8), type |-> "roller"],
     [position |-> Num(11), type |-> "fixed"]}

LoadInput(t, p, m, s, e, w, w1, w2) ==
    [loadType |-> t, position |-> p, magnitude |-> m, startPos |-> s,
     endPos |-> e, intensity |-> w, startIntensity |-> w1, endIntensity |-> w2]

LoadInputs ==
    {LoadInput("concentrated", Num(5), Num(50), NaN, NaN, NaN, NaN, NaN),
     LoadInput("concentrated", Num(11), Num(50), NaN, NaN, NaN, NaN, NaN),
     LoadInput("concentrated", NaN, Num(50), NaN, NaN, NaN, NaN, NaN),
     LoadInput("distributed", NaN, NaN, Num(2), Num(6), Num(10), NaN, NaN),
     LoadInput("distributed", NaN, NaN, Num(6), Num(2), Num(10), NaN, NaN),
     LoadInput("distributed", NaN, NaN, Num(2), Num(6), NaN, NaN, NaN),
     LoadInput("varying", NaN, NaN, Num(4), Num(4), NaN, Num(0), Num(20))}

LT(a, b) == IF a.k = "nan" \/ b.k = "nan" THEN FALSE ELSE ~GE(a, b)
GT(a, b) == LT(b, a)
IsNaN(v) == v.k = "nan"

\* the meshes held by the support and load lists
ListMeshes ==
    {webSupports[k].mesh : k \in 1..Len(webSupports)}
        \cup {webLoads[j].mesh : j \in 1..Len(webLoads)}

\* new THREE.Group(): an object distinct from every mesh created before; at
\* most MaxMeshes of them are created
FreeMeshes == (created + 1)..MaxMeshes
NewMesh == created + 1

\* Array.prototype.splice(index, 1), index counted from 1
RemoveAt(seq, idx) ==
    [k \in 1..(Len(seq) - 1) |-> IF k < idx THEN seq[k] ELSE seq[k + 1]]

\* line 145: the position is rejected
InvalidSupportPosition(position, len) ==
    IsNaN(position) \/ LT(position, Num(0)) \/ GT(position, len)

\* the filter without its distance test
KeepAllSupports(sups, position) == sups

\* line 150: supports.filter(s => Math.abs(s.position - position) > 0.1)
KeepFarSupports(sups, position) ==
    SelectSeq(sups, LAMBDA sp : GT(AbsNum(Sub(sp.position, position)), Norm(1, 10)))

\* the span test with > in place of >=
InvalidSpanStrict(startPos, endPos) == GT(startPos, endPos)

\* lines 266, 278: startPos >= endPos
InvalidSpan(startPos, endPos) ==
    ~IsNaN(startPos) /\ ~IsNaN(endPos) /\ GE(startPos, endPos)

\* lines 254, 266, 278: the load parameters are rejected
InvalidLoad(inp) ==
    CASE inp.loadType = "concentrated" ->
            IsNaN(inp.position) \/ IsNaN(inp.magnitude)
      [] inp.loadType = "distributed" ->
            \/ IsNaN(inp.startPos) \/ IsNaN(inp.endPos) \/ IsNaN(inp.intensity)
            \/ InvalidSpan(inp.startPos, inp.endPos)
      [] inp.loadType = "varying" ->
            \/ IsNaN(inp.startPos) \/ IsNaN(inp.endPos)
            \/ IsNaN(inp.startIntensity) \/ IsNaN(inp.endIntensity)
            \/ InvalidSpan(inp.startPos, inp.endPos)

\* lines 316-321, 362-369: the record pushed to loads
LoadRecord(inp, mesh) ==
    CASE inp.loadType = "concentrated" ->
            [type |-> "concentrated", position |-> inp.position,
             magnitude |-> inp.magnitude, startPos |-> Undefined,
             endPos |-> Undefined, startIntensity |-> Undefined,
             endIntensity |-> Undefined, mesh |-> mesh]
      [] inp.loadType = "distributed" ->
            [type |-> "distributed", position |-> Undefined,
             magnitude |-> Undefined, startPos |-> inp.startPos,
             endPos |-> inp.endPos, startIntensity |-> inp.intensity,
             endIntensity |-> inp.intensity, mesh |-> mesh]
      [] inp.loadType = "varying" ->
            [type |-> "distributed", position |-> Undefined,
             magnitude |-> Undefined, startPos |-> inp.startPos,
             endPos |-> inp.endPos, startIntensity |-> inp.startIntensity,
             endIntensity |-> inp.endIntensity, mesh |-> mesh]

\* lines 395-416: the payload built from the globals when performAnalysis is
\* entered (the material is the default of the page)
Payload ==
    [beamLength |-> webBeamLength,
     supports |-> [k \in 1..Len(webSupports) |->
                     [position |-> webSupports[k].position,
                      type |-> webSupports[k].type]],
     loads |-> [j \in 1..Len(webLoads) |->
                  [type |-> webLoads[j].type, position |-> webLoads[j].position,
                   magnitude |-> webLoads[j].magnitude,
                   startPos |-> webLoads[j].startPos, endPos |-> webLoads[j].endPos,
                   startIntensity |-> webLoads[j].startIntensity,
                   endIntensity |-> webLoads[j].endIntensity]]]

\* the body read late: the model as it is when the response is handled
LiveBody(req) == Payload

\* line 424: body: JSON.stringify(payload), serialised when fetch is called
SentBody(req) == req.payload

\* the `results` of the backend's response to a request: a value determined
\* by the request body
BackendResults(payload) == [of |-> payload]

InitWeb ==
    /\ WebLoaded
    /\ beamLength = 10
    /\ supports = <<>>
    /\ loads = <<>>
    /\ reactions = NoReactions
    /\ analysisData = <<>>
    /\ maxDeflection = Num(0)
    /\ pc = "start"
    /\ error = "none"
    /\ R1 = Undefined
    /\ R2 = Undefined
    /\ data = <<>>
    /\ i = 0
    /\ x = Undefined
    /\ shear = Undefined
    /\ moment = Undefined

\* lines 116-139
CreateBeam ==
    /\ \E len \in WebLengths : webBeamLength' = len
    /\ scene' = (scene \ {beamMesh}) \cup {beamMesh}
    /\ alertMsg' = "none"
    /\ UNCHANGED created
    /\ UNCHANGED <<webSupports, webLoads, analysisResults, resultsDisplay,
                   inflight, nextReq, settled, storedFrom, clearedAt>>
    /\ UNCHANGED reactVars

\* lines 141-194
AddSupport ==
    /\ \E inp \in SupportInputs :
          IF InvalidSupportPosition(inp.position, webBeamLength)
          THEN /\ alertMsg' = "Invalid support position!"
               /\ UNCHANGED <<webSupports, scene, created>>
          ELSE LET kept == KeepFarSupports(webSupports, inp.position)
               IN  /\ Len(kept) < MaxWebSupports
                   /\ FreeMeshes # {}
                   /\ scene' = scene \cup {NewMesh}
                   /\ created' = created + 1
                   /\ webSupports' = Append(kept,
                          [position |-> inp.position, type |-> inp.type,
                           mesh |-> NewMesh])
                   /\ alertMsg' = "none"
    /\ UNCHANGED <<webBeamLength, webLoads, analysisResults, resultsDisplay,
                   inflight, nextReq, settled, storedFrom, clearedAt>>
    /\ UNCHANGED reactVars

\* lines 248-287 with addConcentratedLoad (289-322) and addDistributedLoad
\* (324-369)
AddLoad ==
    /\ \E inp \in LoadInputs :
          IF InvalidLoad(inp)
          THEN /\ alertMsg' = "Invalid load parameters!"
               /\ UNCHANGED <<webLoads, scene, created>>
          ELSE /\ Len(webLoads) < MaxWebLoads
               /\ FreeMeshes # {}
               /\ scene' = scene \cup {NewMesh}
               /\ created' = created + 1
               /\ webLoads' = Append(webLoads, LoadRecord(inp, NewMesh))
               /\ alertMsg' = "none"
    /\ UNCHANGED <<webBeamLength, webSupports, analysisResults, resultsDisplay,
                   inflight, nextReq, settled, storedFrom, clearedAt>>
    /\ UNCHANGED reactVars

\* lines 483-487
RemoveSupport ==
    /\ \E idx \in 1..Len(webSupports) :
          /\ scene' = scene \ {webSupports[idx].mesh}
          /\ webSupports' = RemoveAt(webSupports, idx)
    /\ alertMsg' = "none"
    /\ UNCHANGED created
    /\ UNCHANGED <<webBeamLength, webLoads, analysisResults, resultsDisplay,
                   inflight, nextReq, settled, storedFrom, clearedAt>>
    /\ UNCHANGED reactVars

\* lines 489-493
RemoveLoad ==
    /\ \E idx \in 1..Len(webLoads) :
          /\ scene' = scene \ {webLoads[idx].mesh}
          /\ webLoads' = RemoveAt(webLoads, idx)
    /\ alertMsg' = "none"
    /\ UNCHANGED created
    /\ UNCHANGED <<webBeamLength, webSupports, analysisResults, resultsDisplay,
                   inflight, nextReq, settled, storedFrom, clearedAt>>
    /\ UNCHANGED reactVars

\* lines 495-503
ClearAll ==
    /\ scene' = scene \ ListMeshes
    /\ webSupports' = <<>>
    /\ webLoads' = <<>>
    /\ analysisResults' = <<>>
    /\ resultsDisplay' = "none"
    /\ alertMsg' = "none"
    /\ storedFrom' = 0
    /\ clearedAt' = nextReq
    /\ UNCHANGED <<webBeamLength, inflight, nextReq, created, settled>>
    /\ UNCHANGED reactVars

\* lines 371-389 up to the fetch of performAnalysis (391-425): the guards,
\* then the request leaves with the payload built at this moment
AnalyzeBeam ==
    /\ IF Len(webSupports) < 2
       THEN /\ alertMsg' = "Please add at least 2 supports!"
            /\ UNCHANGED <<inflight, nextReq, settled>>
       ELSE IF Len(webLoads) = 0
       THEN /\ alertMsg' = "Please add at least one load!"
            /\ UNCHANGED <<inflight, nextReq, settled>>
       ELSE /\ nextReq <= MaxRequests
            /\ inflight' = inflight \cup {[id |-> nextReq, payload |-> Payload]}
            /\ nextReq' = nextReq + 1
            /\ UNCHANGED settled
            /\ alertMsg' = "none"
    /\ UNCHANGED <<webBeamLength, webSupports, webLoads, analysisResults, scene,
                   resultsDisplay, created, storedFrom, clearedAt>>
    /\ UNCHANGED reactVars

\* lines 382-388 and 427-438: the request settles.  "ok" is a response whose
\* body has results, "noresults" one whose body has none, "failed" a network
\* error or a status that is not ok.
Respond ==
    /\ \E req \in inflight, outcome \in {"ok", "noresults", "failed"} :
          /\ inflight' = inflight \ {req}
          /\ settled' = <<req.id, outcome>>
          /\ storedFrom' = IF outcome = "ok" THEN req.id ELSE storedFrom
          /\ CASE outcome = "ok" ->
                    /\ analysisResults' = <<BackendResults(SentBody(req))>>
                    /\ resultsDisplay' = "block"
                    /\ alertMsg' = "none"
               [] outcome = "noresults" ->
                    /\ alertMsg' = "none"
                    /\ UNCHANGED <<analysisResults, resultsDisplay>>
               [] outcome = "failed" ->
                    /\ alertMsg' = "Failed to analyze beam. Make sure the Python backend server is running."
                    /\ UNCHANGED <<analysisResults, resultsDisplay>>
    /\ UNCHANGED <<webBeamLength, webSupports, webLoads, scene, nextReq, created,
                   clearedAt>>
    /\ UNCHANGED reactVars

NextEdit ==
    CreateBeam \/ AddSupport \/ AddLoad \/ RemoveSupport \/ RemoveLoad \/ ClearAll

NextWeb == NextEdit \/ AnalyzeBeam \/ Respond

\* the designer's editing handlers alone
SpecEdit == InitWeb /\ [][NextEdit]_vars

\* the designer with its analysis requests
SpecWeb == InitWeb /\ [][NextWeb]_vars

\* the handlers the user can run while a request is in flight, and the
\* request itself
NextSnapshot ==
    AddSupport \/ RemoveSupport \/ AddLoad \/ RemoveLoad \/ ClearAll
        \/ AnalyzeBeam \/ Respond

\* the designer after addSupport(4, pin), addSupport(8, roller) and
\* addLoad(distributed, 2, 6, 10) on the loaded page: ready for an analysis
InitPrepared ==
    /\ webBeamLength = Num(10)
    /\ webSupports = <<[position |-> Num(4), type |-> "pin", mesh |-> 1],
                       [position |-> Num(8), type |-> "roller", mesh |-> 2]>>
    /\ webLoads = <<LoadRecord(LoadInput("distributed", NaN, NaN, Num(2), Num(6),
                                         Num(10), NaN, NaN), 3)>>
    /\ analysisResults = <<>>
    /\ scene = {beamMesh, 1, 2, 3}
    /\ resultsDisplay = "none"
    /\ alertMsg = "none"
    /\ inflight = {}
    /\ nextReq = 1
    /\ created = 3
    /\ settled = <<0, "none">>
    /\ storedFrom = 0
    /\ clearedAt = 1
    /\ beamLength = 10
    /\ supports = <<>>
    /\ loads = <<>>
    /\ reactions = NoReactions
    /\ analysisData = <<>>
    /\ maxDeflection = Num(0)
    /\ pc = "start"
    /\ error = "none"
    /\ R1 = Undefined
    /\ R2 = Undefined
    /\ data = <<>>
    /\ i = 0
    /\ x = Undefined
    /\ shear = Undefined
    /\ moment = Undefined

\* the designer's analysis requests, from a beam that is ready for analysis
SpecRequests == InitPrepared /\ [][NextWeb]_vars

\* the same under edits of the supports and loads only
SpecSnapshot == InitPrepared /\ [][NextSnapshot]_vars

\* the transport settles every request: a fetch promise is eventually
\* fulfilled or rejected and its callbacks run
SpecRequestsFair == SpecRequests /\ WF_vars(Respond)

\* lines 467-471: the reaction the support list shows for support k
ShownReaction(k) ==
    IF supports[k].position \in DOMAIN reactions
    THEN reactions[supports[k].position]
    ELSE Undefined

(***************************************************************************)
(* Reference quantities of the claims.                                     *)
(***************************************************************************)
Solved == pc # "start" /\ Len(supports) >= 2
DistinctSupports == supports[1].position # supports[2].position
Ended == pc \in {"threw", "done"}
\* the locals x, shear, moment hold the values of an executed iteration
Sampled == pc = "threw" \/ i > 0
AllConcentrated == \A j \in 1..Len(loads) : loads[j].type = "concentrated"
ConcentratedLoads == {j \in 1..Len(loads) : loads[j].type = "concentrated"}
DistributedLoads == {j \in 1..Len(loads) : loads[j].type # "concentrated"}
InBounds ==
    /\ \A k \in 1..Len(supports) :
          supports[k].position >= 0 /\ supports[k].position <= beamLength
    /\ \A j \in ConcentratedLoads :
          loads[j].position >= 0 /\ loads[j].position <= beamLength
    /\ \A j \in DistributedLoads :
          loads[j].startPos >= 0 /\ loads[j].endPos <= beamLength

\* sum of w[j] over the index set S
RECURSIVE SumNum(_, _)
SumNum(S, w) ==
    IF S = {} THEN Num(0)
    ELSE LET j == CHOOSE j \in S : TRUE
         IN  Add(w[j], SumNum(S \ {j}, w))

Magnitudes == [j \in 1..Len(loads) |-> Num(loads[j].magnitude)]
MomentsAbout(p) ==
    [j \in 1..Len(loads) |->
        Mul(Num(loads[j].magnitude), Sub(Num(loads[j].position), Num(p)))]

\* superposition of the two reactions and the concentrated loads at or left
\* of xx
RefShear(xx) ==
    LET r == Add(IF GE(xx, Num(supports[1].position)) THEN R1 ELSE Num(0),
                 IF GE(xx, Num(supports[2].position)) THEN R2 ELSE Num(0))
        S == {j \in ConcentratedLoads : GE(xx, Num(loads[j].position))}
    IN  Sub(r, SumNum(S, Magnitudes))

\* integral of the linear intensity of load l over [startPos, min(xx, endPos)]
PartialResultant(l, xx) ==
    LET s == Num(l.startPos)
        e == Num(l.endPos)
        upper == IF GE(xx, e) THEN e ELSE xx
        u == IF GE(s, upper) THEN Num(0) ELSE Sub(upper, s)
        slope == Div(Sub(Num(l.endIntensity), Num(l.startIntensity)), Sub(e, s))
    IN  Add(Mul(Num(l.startIntensity), u),
            Div(Mul(slope, Mul(u, u)), Num(2)))

\* resultant magnitude and line of action of load l
ResultantMagnitude(l) ==
    IF l.type = "concentrated" THEN Num(l.magnitude)
    ELSE Div(Mul(Num(l.startIntensity + l.endIntensity),
                 Num(l.endPos - l.startPos)), Num(2))
ResultantCentroid(l) ==
    IF l.type = "concentrated" THEN Num(l.position)
    ELSE Add(Num(l.startPos),
             Mul(Div(Num(l.endPos - l.startPos), Num(3)),
                 Div(Num(l.startIntensity + 2 * l.endIntensity),
                     Num(l.startIntensity + l.endIntensity))))

(***************************************************************************)
(* Claims.                                                                 *)
(***************************************************************************)

\* C1: with two supports at distinct positions and concentrated loads only,
\* the two published reactions add up to the sum of all load magnitudes.
C1_VerticalEquilibrium ==
    (Solved /\ DistinctSupports /\ AllConcentrated) =>
        Add(reactions[supports[1].position], reactions[supports[2].position])
            = SumNum(1..Len(loads), Magnitudes)

C1_Witness ==
    /\ Solved /\ DistinctSupports /\ AllConcentrated
    /\ Len(loads) = 2
    /\ IsFinite(R1) /\ R1.n # 0
    /\ IsFinite(R2) /\ R2.n # 0 /\ R1 # R2

C3_DegenerateSupportsRejected ==
    (Solved /\ ~DistinctSupports) =>
        /\ error = "DegenerateSupportError"
        /\ reactions = NoReactions
        /\ data = <<>>

\* C4: every support is shown its own reaction and no other (support 1 the
\* value R1, support 2 the value R2, further supports none), and giving the
\* two supports in the opposite order yields the same reaction for each
\* support and the same shear at the sample.
C4_OrderIndependentIdentity ==
    Solved =>
        LET s1 == supports[1]
            s2 == supports[2]
            total == TotalLoad(loads, Len(loads))
            r2sw == ReactionR2(MomentAboutSupport1(loads, Len(loads), s2.position),
                               SpanL(s2, s1))
            r1sw == ReactionR1(total, r2sw)
        IN  /\ ShownReaction(1) = R1
            /\ ShownReaction(2) = R2
            /\ \A k \in 3..Len(supports) : ShownReaction(k) = Undefined
            /\ r1sw = R2
            /\ r2sw = R1
            /\ Sampled => ShearAt(x, s2, s1, loads, r1sw, r2sw) = shear

\* C5: the shear the sweep computes at a sample x is the sum of the reactions
\* of the supports at or left of x minus the sum of the concentrated loads
\* at or left of x; it is 0 left of every support and load.
C5_ShearSuperposition ==
    Sampled =>
        /\ shear = RefShear(x)
        /\ ( /\ \A k \in 1..2 : ~GE(x, Num(supports[k].position))
             /\ \A j \in ConcentratedLoads : ~GE(x, Num(loads[j].position)) )
           => shear = Num(0)

C5_Witness ==
    /\ Sampled
    /\ IsFinite(shear) /\ shear.n # 0
    /\ GE(x, Num(supports[1].position))
    /\ \E j \in ConcentratedLoads : GE(x, Num(loads[j].position))

\* C6: for a valid input the analysis completes and its moment array has
\* moment[0] = 0 and moment[i] = moment[i-1] + (shear[i-1] + shear[i]) / 2 * dx.
C6_MomentRecurrence ==
    (Ended /\ Len(supports) >= 2 /\ DistinctSupports /\ InBounds) =>
        /\ error = "none"
        /\ Len(analysisData) = numPoints
        /\ ToNumber(analysisData[1].moment) = Num(0)
        /\ \A j \in 2..numPoints :
              analysisData[j].moment =
                  ToFixed(Add(ToNumber(analysisData[j - 1].moment),
                              Mul(Div(Add(ToNumber(analysisData[j - 1].shear),
                                          ToNumber(analysisData[j].shear)), Num(2)),
                                  dx(beamLength))), 2)

\* C7: when all load and support positions lie in [0, length], the shear at
\* the last sample (x = length) is 0.
C7_ClosingShear ==
    (Ended /\ Len(supports) >= 2 /\ DistinctSupports /\ InBounds) =>
        /\ Len(analysisData) = numPoints
        /\ ToNumber(analysisData[numPoints].x) = Num(beamLength)
        /\ ToNumber(analysisData[numPoints].shear) = Num(0)

\* C8: with concentrated loads in [0, length], the bending moment is 0 at the
\* first sample and 0 at the last sample.
C8_EndMoments ==
    (Ended /\ Len(supports) >= 2 /\ DistinctSupports /\ InBounds /\ AllConcentrated) =>
        /\ Len(analysisData) = numPoints
        /\ ToNumber(analysisData[1].moment) = Num(0)
        /\ ToNumber(analysisData[numPoints].moment) = Num(0)

\* C9: every distributed load in the load list lowers the shear at a sample x
\* by the integral of its intensity over [startPos, min(x, endPos)].
C9_DistributedLoadsInShear ==
    Sampled =>
        shear = Sub(RefShear(x),
                    SumNum(DistributedLoads,
                           [j \in 1..Len(loads) |-> PartialResultant(loads[j], x)]))

\* C10: a uniformly varying load enters the reaction computation as its
\* resultant (w1 + w2) / 2 * L acting at startPos + L/3 * (w1 + 2 w2) / (w1 + w2).
C10_LoadReduction ==
    (Solved /\ DistinctSupports) =>
        LET p1 == supports[1].position
            p2 == supports[2].position
            mags == [j \in 1..Len(loads) |-> ResultantMagnitude(loads[j])]
            moms == [j \in 1..Len(loads) |->
                        Mul(ResultantMagnitude(loads[j]),
                            Sub(ResultantCentroid(loads[j]), Num(p1)))]
        IN  /\ Add(R1, R2) = SumNum(1..Len(loads), mags)
            /\ Mul(R2, Num(p2 - p1)) = SumNum(1..Len(loads), moms)

\* the inputs of README Example 1: supports at 2 and 8 in that order and the
\* three loads 50 at 1, 30 at 6, 40 at 9 in any order
ScenarioCase ==
    /\ beamLength = 10
    /\ Len(supports) = 2
    /\ supports[1].position = 2 /\ supports[2].position = 8
    /\ Len(loads) = 3
    /\ \A pm \in {<<1, 50>>, <<6, 30>>, <<9, 40>>} :
          \E j \in 1..3 : loads[j].position = pm[1] /\ loads[j].magnitude = pm[2]

\* C11: for beam length 10, supports at 2 and 8 and downward loads 50 at 1,
\* 30 at 6 and 40 at 9 the solver yields R1 + R2 = 120 and R2 * 6 = 350
\* (R2 = 350/6, R1 = 370/6).
C11_ReferenceScenario ==
    (ScenarioCase /\ Solved) =>
        /\ Add(reactions[2], reactions[8]) = Num(120)
        /\ Mul(reactions[8], Num(6)) = Num(350)
        /\ reactions[8] = Norm(350, 6)
        /\ reactions[2] = Norm(370, 6)

C11_Witness == ScenarioCase /\ Solved /\ DOMAIN reactions = {2, 8}

\* C12: for every input with two supports (at distinct positions) the
\* analysis completes without raising and returns exactly numPoints samples with x[0] = 0,
\* x[numPoints-1] = length and equal spacing length / (numPoints - 1).
C12_ResultShape ==
    (Ended /\ Len(supports) = 2 /\ DistinctSupports) =>
        /\ error = "none"
        /\ Len(analysisData) = numPoints
        /\ ToNumber(analysisData[1].x) = Num(0)
        /\ ToNumber(analysisData[numPoints].x) = Num(beamLength)
        /\ \A j \in 2..numPoints :
              Sub(ToNumber(analysisData[j].x), ToNumber(analysisData[j - 1].x))
                  = dx(beamLength)

\* C13: no step of the analysis writes the state outside its returned result:
\* reactions, analysisData and maxDeflection stay as they were.
C13_Purity ==
    [][/\ reactions' = reactions
       /\ analysisData' = analysisData
       /\ maxDeflection' = maxDeflection]_vars

\* C15: an analysis requested with fewer than 2 supports leaves the stored
\* result (reactions, field, maximum deflection) unchanged.
C15_TooFewSupportsRejected ==
    Len(supports) < 2 =>
        /\ reactions = NoReactions
        /\ analysisData = <<>>
        /\ maxDeflection = Num(0)

\* C20: a beam is analysed only when exactly two supports are given: with
\* three or more supports no reactions and no samples are computed from a
\* subset of them.
C20_ExactlyTwoSupports ==
    (Len(supports) > 2 /\ DistinctSupports) =>
        /\ reactions = NoReactions
        /\ data = <<>>

\* the meshes the scene still shows although no list refers to them
OrphanMeshes == scene \ (ListMeshes \cup {beamMesh})
InBeam(position) == GE(position, Num(0)) /\ GE(webBeamLength, position)

\* C14: in the web designer a stored analysis result is the result of the
\* current beam length, supports and loads.
C14_NoStaleResult ==
    Len(analysisResults) = 1 => analysisResults[1] = BackendResults(Payload)

\* C16: no load stored in the web designer's load list has a position (or a
\* start or end position) outside [0, beamLength].
C16_LoadPositionBounds ==
    \A j \in 1..Len(webLoads) :
        IF webLoads[j].type = "concentrated"
        THEN InBeam(webLoads[j].position)
        ELSE InBeam(webLoads[j].startPos) /\ InBeam(webLoads[j].endPos)

\* C17: every support in the web designer's support list has a position in
\* [0, beamLength] for the current beam length.
C17_SupportPositionInvariant ==
    \A k \in 1..Len(webSupports) : InBeam(webSupports[k].position)

\* C18: a rejected addLoad leaves the load list unchanged, and after every
\* step each distributed load in the list has startPos < endPos.
C18_DistributedLoadGeometry ==
    [][/\ alertMsg' = "Invalid load parameters!" => webLoads' = webLoads
       /\ \A j \in 1..Len(webLoads') :
             webLoads'[j].type = "distributed" =>
                 LT(webLoads'[j].startPos, webLoads'[j].endPos)]_vars

C18_Witness ==
    /\ alertMsg = "Invalid load parameters!"
    /\ \E j \in 1..Len(webLoads) : webLoads[j].type = "distributed"

\* C19: no two supports in the web designer's support list are at the same
\* position or within 0.1 of each other.
C19_DistinctSupports ==
    \A k, l \in 1..Len(webSupports) :
        k # l => GT(AbsNum(Sub(webSupports[k].position, webSupports[l].position)),
                    Norm(1, 10))

\* a support was replaced by one within 0.1 of it, next to another support
C19_Witness ==
    /\ Len(webSupports) = 2
    /\ OrphanMeshes # {}
    /\ \E k \in 1..2 : webSupports[k].position = Norm(81, 20)


\* the supports with the kind of support k changed
Rekind(sups, k, kind) == [sups EXCEPT ![k].type = kind]
SupportKinds == {c.type : c \in KindSupportChoices}
\* the shear the sweep's formula gives at the last sample, x = length
ClosingShear ==
    ShearAt(Num(beamLength), supports[1], supports[2], loads, R1, R2)

\* C21: whenever the shear at the last sample is not 0, the analysis returns
\* an equilibrium warning alongside its result.
C21_EquilibriumWarning ==
    (Ended /\ Len(supports) >= 2 /\ DistinctSupports /\ ClosingShear # Num(0))
        => Warnings # <<>>

\* C22: the summary of an analysis that produced zero samples fails with an
\* EmptyFieldError and reports no maximum deflection.
C22_EmptyFieldError ==
    (pc = "done" /\ Len(analysisData) = 0) =>
        /\ error = "EmptyFieldError"
        /\ IsFinite(maxDeflection)

\* C23: changing the kind of any one support among pin, roller and fixed,
\* with positions and loads unchanged, gives the reactions the run has just
\* computed and the shear and moment of every sample the sweep computes.
C23_SupportKindIrrelevant ==
    \A k \in 1..Len(supports) : \A kind \in SupportKinds \ {supports[k].type} :
        LET s == Rekind(supports, k, kind)
        IN  /\ (pc = "sweep" /\ i = 0) =>
                  /\ R2 = ReactionR2(
                              MomentAboutSupport1(loads, Len(loads), s[1].position),
                              SpanL(s[1], s[2]))
                  /\ R1 = ReactionR1(TotalLoad(loads, Len(loads)), R2)
                  /\ reactions =
                        ReactionsObject(s[1].position, R1, s[2].position, R2)
            /\ (Solved /\ Sampled) =>
                  /\ shear = ShearAt(x, s[1], s[2], loads, R1, R2)
                  /\ moment = MomentAt(IF pc = "threw" THEN i ELSE i - 1, shear,
                                       data, dx(beamLength))

C23_Witness ==
    /\ Solved /\ Sampled /\ DistinctSupports
    /\ supports[1].type = "pin" /\ supports[2].type = "fixed"
    /\ IsFinite(R2) /\ R2.n # 0
    /\ IsFinite(shear) /\ shear.n # 0

C30_SceneMatchesModel == scene = ListMeshes \cup {beamMesh}

FailureAlert ==
    "Failed to analyze beam. Make sure the Python backend server is running."
InFlight(id) == \E r \in inflight : r.id = id

C25_LastRequestWins ==
    [][(storedFrom # 0 /\ storedFrom' # 0) => storedFrom' >= storedFrom]_vars

\* C26: the stored results never come from a request issued before the last
\* clearAll.
C26_ClearIsFinal ==
    /\ storedFrom # 0 => storedFrom >= clearedAt
    /\ storedFrom = 0 => analysisResults = <<>>

\* C27: when a request fails or its response carries no results, the failure
\* is reported and analysisResults, supports and loads are left as they were.
C27_FailedRequestLeavesState ==
    [][(settled' # settled /\ settled'[2] \in {"failed", "noresults"}) =>
          /\ alertMsg' = FailureAlert
          /\ UNCHANGED <<analysisResults, webSupports, webLoads>>]_vars

\* C28: every request sent eventually ends in exactly one of two outcomes:
\* its results replace analysisResults, or a failure is reported.
C28_RequestCompletion ==
    \A id \in 1..MaxRequests :
        InFlight(id) ~>
            /\ settled[1] = id
            /\ \/ settled[2] = "ok" /\ storedFrom = id
               \/ settled[2] = "failed" /\ alertMsg = FailureAlert

=============================================================================
